---- MODULE Spec2Model ----
(***************************************************************************)
(* Ownership model of the smart-pointer demonstration in source/main.cpp.  *)
(*                                                                         *)
(* Part U models the std::unique_ptr block (main.cpp 99-168): Person       *)
(* objects with a unique_ptr parent member, the stack owners joe, who and  *)
(* what, the temporary of `x = std::unique_ptr<Person>(new Person(..))`    *)
(* and the raw pointer obtained from release().                            *)
(*                                                                         *)
(* Part S models the std::shared_ptr / std::weak_ptr block (main.cpp       *)
(* 175-277): Person objects with a shared_ptr parent member, control       *)
(* blocks with a strong and a weak count, stack owners and observers.      *)
(*                                                                         *)
(* Part R models the raw-pointer block (main.cpp 36-90) and the run of     *)
(* ~Person() up a parent chain, one destructor step at a time, for the     *)
(* raw-pointer and the unique_ptr Person.  Part M runs main() statement by *)
(* statement with the operators of the other parts.  Part C models         *)
(* weak_ptr::lock() called while other threads destroy the shared owners.  *)
(***************************************************************************)
EXTENDS Integers, FiniteSets, Sequences, TLC

\* ------------------------------------------------------------------ bounds

\* Number of Person objects `new` can create in the unique_ptr block.
MaxURes == 3

URes == 1 .. MaxURes

\* Number of Person objects `new` can create in the shared_ptr block.
MaxSRes == 2

SRes == 1 .. MaxSRes

\* Number of std::weak_ptr variables declared like weakPtr.
MaxWeak == 2

\* Number of Person objects `new` can create in a run of the destructor-chain
\* model (the longest parent chain it builds).
MaxRRes == 3

RRes == 1 .. MaxRRes

\* Number of threads that call weakPtr.lock(), and number of shared owners that
\* exist when they start, in the model of lock() racing with ~shared_ptr().
MaxLockers == 2
MaxCOwners == 2

CLockers == 1 .. MaxLockers
COwners == 1 .. MaxCOwners

\* nullptr
Null == 0

Min(a, b) == IF a < b THEN a ELSE b

\* -------------------------------------------------------------- part U state

\* Stack owners of the unique_ptr block, the temporary of a move-assignment
\* statement, and the parent member of each Person.
Joe == <<"joe", 0>>
Who == <<"who", 0>>
What == <<"what", 0>>
Tmp == <<"tmp", 0>>
UField(r) == <<"parent", r>>

UStack == {Joe, Who, What}
UFields == {UField(r) : r \in URes}
UOwners == UStack \cup {Tmp} \cup UFields

VARIABLES
    ulife,   \* Person -> "unborn" | "alive" | "dead"
    udtor,   \* Person -> number of times ~Person() has run on it
    uptr,    \* owner -> the Person it owns, or Null
    uscope,  \* stack owner or temporary -> "undeclared" | "live" | "gone"
    up,      \* the raw pointer p returned by release(), Null when there is none
    upc,     \* position inside `dst = std::unique_ptr<Person>(new Person)`
    udst,    \* target of the move-assignment statement being executed
    uold,    \* old_p of the reset() inside the move-assignment
    unew,    \* the Person created by the statement's `new`
    uop      \* the last operation executed

uvars == <<ulife, udtor, uptr, uscope, up, upc, udst, uold, unew, uop>>

\* State of the shared_ptr / weak_ptr block (part S).
VARIABLES
    slife,   \* Person -> "unborn" | "alive" | "dead"
    sdtor,   \* Person -> number of times ~Person() has run on it
    sraw,    \* Person -> TRUE while main manages it through a raw pointer
    sptr,    \* shared owner -> the Person (and control block) it refers to, or Null
    sscope,  \* stack owner -> "undeclared" | "live" | "gone"
    cb,      \* Person -> "none" | "live" | "freed": its control block
    strong,  \* Person -> strong count of its control block
    weak,    \* Person -> weak count of its control block
    wptr,    \* weak observer -> the control block it observes, or Null
    wscope   \* weak observer -> "live" | "gone"

svars == <<slife, sdtor, sraw, sptr, sscope, cb, strong, weak, wptr, wscope>>

\* State of the destructor-chain model (part R): the raw-pointer block and the
\* step-by-step run of ~Person() up a parent chain.
VARIABLES
    rkind,   \* "unset" | "raw" | "unique": the Person class of the block being run
    rlife,   \* Person -> "unborn" | "alive" | "destructing" | "unwinding" | "dead"
    rdel,    \* Person -> number of times its destruction was begun
    rparent, \* Person -> value of its parent pointer (kept after the Person's death)
    rheld,   \* the Persons main holds a pointer to (tim, jim; joe / p)
    rstack,  \* the ~Person() calls in progress, innermost last
    rerr     \* "none" | "abort" | "corrupt": outcome of deleting a deleted Person

rvars == <<rkind, rlife, rdel, rparent, rheld, rstack, rerr>>

\* State of the run of main() from its first to its last statement (part M).
VARIABLES
    mpc,     \* index in MProg of the next statement of main
    mcin,    \* state of std::cin: "good" | "eof"
    mr,      \* heap of the raw-pointer block: life, dtor, parent, err
    mu,      \* heap of the unique_ptr block: life, dtor, ptr
    mp,      \* the raw pointer p (and the result of what.release())
    mold,    \* old_p of the reset() inside a move-assignment
    ms,      \* heap of the shared_ptr block: life, dtor, ptr, cb, strong, weak
    mwptr    \* the control block weakPtr observes, or Null

mvars == <<mpc, mcin, mr, mu, mp, mold, ms, mwptr>>

\* State of the model of weak_ptr::lock() running concurrently with the
\* destruction of shared owners of the same Person (part C).
VARIABLES
    cstrong, \* strong count of the control block
    clife,   \* "alive" | "dead": the Person
    cdtor,   \* number of times ~Person() has run
    cowner,  \* initial shared owner -> "live" | "disposing" | "gone"
    clock,   \* locker -> "idle" | "loaded" | "owner" | "empty" | "disposing" | "gone"
    cseen,   \* locker -> the strong count its lock() read last
    cretry   \* locker -> TRUE once a compare-exchange of its lock() has failed

cvars == <<cstrong, clife, cdtor, cowner, clock, cseen, cretry>>

vars == <<uvars, svars, rvars, mvars, cvars>>

\* The three pieces of heap state the operations transform.
UHeap == [life |-> ulife, dtor |-> udtor, ptr |-> uptr]

\* The owner object exists: a stack object in scope, or a member of a live Person.
UOwnerLive(o) ==
    IF o \in UFields THEN ulife[o[2]] = "alive" ELSE uscope[o] = "live"

\* Persons reachable from owner o through parent members (o's ownership chain).
RECURSIVE UChainFrom(_, _, _)
UChainFrom(ptr, r, fuel) ==
    IF r = Null \/ fuel = 0 THEN {}
    ELSE {r} \cup UChainFrom(ptr, ptr[UField(r)], fuel - 1)

UChain(o) == UChainFrom(uptr, uptr[o], MaxURes)

\* An owner the block can name: a stack owner in scope, or a parent member
\* reached from one through -> (joe->parent, joe->parent->parent, ...).
UAccessible(o) ==
    \/ o \in UStack /\ uscope[o] = "live"
    \/ o \in UFields /\ \E s \in UStack : uscope[s] = "live" /\ o[2] \in UChain(s)

\* `new Person(..)`: the next object that has not been created yet.
UFresh == CHOOSE r \in URes : ulife[r] = "unborn" /\ \A q \in URes : ulife[q] = "unborn" => r <= q

UCanNew == \E r \in URes : ulife[r] = "unborn"

\* -------------------------------------------------------- part U operations

\* `delete r`: ~Person() runs (prints "destructed"), then the parent member is
\* destroyed, which deletes the Person it owns, and so on up the chain.
RECURSIVE UDelete(_, _, _)
UDelete(h, r, fuel) ==
    IF r = Null \/ fuel = 0 THEN h
    ELSE LET next == h.ptr[UField(r)]
             h1 == [life |-> [h.life EXCEPT ![r] = "dead"],
                    dtor |-> [h.dtor EXCEPT ![r] = Min(@ + 1, 2)],
                    ptr |-> [h.ptr EXCEPT ![UField(r)] = Null]]
         IN UDelete(h1, next, fuel - 1)

\* Faulty release(): the pointer is returned but the owner keeps it.
UReleaseKeeps(h, o) == h

\* unique_ptr::release(): the owner becomes empty, nothing is destroyed.
UReleaseOp(h, o) == [h EXCEPT !.ptr[o] = Null]

\* Faulty ~unique_ptr(): the owned Person is not deleted.
UDestroyOwnerLeaks(h, o) == [h EXCEPT !.ptr[o] = Null]

\* unique_ptr::~unique_ptr(): deletes the owned Person if there is one.
UDestroyOwnerOp(h, o) ==
    UDelete([h EXCEPT !.ptr[o] = Null], h.ptr[o], MaxURes)

\* Faulty swap(): a receives b's pointer, b keeps its own (a copy).
USwapCopies(h, a, b) == [h EXCEPT !.ptr[a] = h.ptr[b]]

\* Faulty swap(): a receives b's pointer, b is left empty (a move).
USwapMoves(h, a, b) == [h EXCEPT !.ptr[a] = h.ptr[b], !.ptr[b] = Null]

\* unique_ptr::swap(): exchanges the two stored pointers.
USwapOp(h, a, b) == [h EXCEPT !.ptr[a] = h.ptr[b], !.ptr[b] = h.ptr[a]]

\* Faulty move-assignment: the target takes the pointer, the source keeps it.
UMoveTakeKeepsSource(h, dst, src) == [h EXCEPT !.ptr[dst] = h.ptr[src]]

\* Faulty move-assignment: the old Person is deleted before the new pointer
\* is stored.
UMoveTakeDeletesFirst(h, dst, src) ==
    LET h1 == UDelete(h, h.ptr[dst], MaxURes)
    IN [h1 EXCEPT !.ptr[dst] = h.ptr[src], !.ptr[src] = Null]

\* First half of unique_ptr::operator=(unique_ptr&&), reset(src.release()):
\* the source is emptied and its pointer stored in the target.
UMoveTakeOp(h, dst, src) == [h EXCEPT !.ptr[dst] = h.ptr[src], !.ptr[src] = Null]

\* `new Person(..)` in heap h: the lowest-numbered Person not created yet.
UFreshIn(h) ==
    CHOOSE r \in URes : h.life[r] = "unborn" /\ \A q \in URes : h.life[q] = "unborn" => r <= q

\* Faulty assignment: the target takes the new Person, the old one is never
\* deleted.
UAssignNewLeaks(h, dst) ==
    LET r == UFreshIn(h)
        h1 == [h EXCEPT !.life[r] = "alive", !.ptr[Tmp] = r]
        h2 == UMoveTakeOp(h1, dst, Tmp)
    IN UDestroyOwnerOp(h2, Tmp)

\* The whole statement `dst = std::unique_ptr<Person>(new Person(..))`:
\* new Person and the temporary, operator=(unique_ptr&&) = reset(tmp.release())
\* (store the new pointer, delete the old one), destruction of the temporary.
UAssignNewOp(h, dst) ==
    LET r == UFreshIn(h)
        h1 == [h EXCEPT !.life[r] = "alive", !.ptr[Tmp] = r]
        h2 == UMoveTakeOp(h1, dst, Tmp)
        h3 == UDelete(h2, h.ptr[dst], MaxURes)
    IN UDestroyOwnerOp(h3, Tmp)

\* The two statements `delete dst.release(); dst = std::unique_ptr<Person>(new Person(..));`
UReleaseDeleteAssignOp(h, dst) ==
    LET h1 == UReleaseOp(h, dst)
        h2 == UDelete(h1, h.ptr[dst], MaxURes)
    IN UAssignNewOp(h2, dst)

\* Faulty operator->: an empty owner reports an error to the caller.
UDerefThrows(h, o) == IF h.ptr[o] # Null THEN {"value"} ELSE {"error"}

\* unique_ptr::operator->: the stored pointer is dereferenced.  On an empty
\* owner this is undefined behaviour: the access through the null pointer
\* terminates the program, or it reads an indeterminate value and goes on.
UDerefOutcomes(h, o) == IF h.ptr[o] # Null THEN {"value"} ELSE {"crash", "garbage"}

UInit ==
    /\ ulife = [r \in URes |-> "unborn"]
    /\ udtor = [r \in URes |-> 0]
    /\ uptr = [o \in UOwners |-> Null]
    /\ uscope = [o \in UStack \cup {Tmp} |-> "undeclared"]
    /\ up = Null
    /\ upc = "idle"
    /\ udst = Joe
    /\ uold = Null
    /\ unew = Null
    /\ uop = "none"

USetHeap(h) ==
    /\ ulife' = h.life
    /\ udtor' = h.dtor
    /\ uptr' = h.ptr

\* std::unique_ptr<Person> joe(new Person("Joe the third"));
UConstruct(o) ==
    /\ upc = "idle"
    /\ o \in UStack /\ uscope[o] = "undeclared"
    /\ UCanNew
    /\ ulife' = [ulife EXCEPT ![UFresh] = "alive"]
    /\ uptr' = [uptr EXCEPT ![o] = UFresh]
    /\ uscope' = [uscope EXCEPT ![o] = "live"]
    /\ uop' = "construct"
    /\ UNCHANGED <<udtor, up, upc, udst, uold, unew>>
    /\ UNCHANGED <<svars, rvars, mvars, cvars>>

\* Person* p = joe.release();
URelease(o) ==
    /\ upc = "idle"
    /\ up = Null
    /\ UAccessible(o)
    /\ USetHeap(UReleaseOp(UHeap, o))
    /\ up' = uptr[o]
    /\ uop' = "release"
    /\ UNCHANGED <<uscope, upc, udst, uold, unew>>
    /\ UNCHANGED <<svars, rvars, mvars, cvars>>

\* delete p;
UDeleteRaw ==
    /\ upc = "idle"
    /\ up # Null
    /\ USetHeap(UDelete(UHeap, up, MaxURes))
    /\ up' = Null
    /\ uop' = "delete"
    /\ UNCHANGED <<uscope, upc, udst, uold, unew>>
    /\ UNCHANGED <<svars, rvars, mvars, cvars>>

\* who.swap(what);
USwap(a, b) ==
    /\ upc = "idle"
    /\ a # b
    /\ UAccessible(a) /\ UAccessible(b)
    /\ USetHeap(USwapOp(UHeap, a, b))
    /\ uop' = "swap"
    /\ UNCHANGED <<uscope, up, upc, udst, uold, unew>>
    /\ UNCHANGED <<svars, rvars, mvars, cvars>>

\* who = std::unique_ptr<Person>(new Person("who"));  step 1: `new Person` and
\* the temporary unique_ptr constructed from it.
UTempConstruct(dst) ==
    /\ upc = "idle"
    /\ UAccessible(dst)
    /\ UCanNew
    /\ ulife' = [ulife EXCEPT ![UFresh] = "alive"]
    /\ uptr' = [uptr EXCEPT ![Tmp] = UFresh]
    /\ uscope' = [uscope EXCEPT ![Tmp] = "live"]
    /\ upc' = "built"
    /\ udst' = dst
    /\ unew' = UFresh
    /\ uold' = Null
    /\ uop' = "temp"
    /\ UNCHANGED <<udtor, up>>
    /\ UNCHANGED <<svars, rvars, mvars, cvars>>

\* step 2: operator=(unique_ptr&&) calls reset(tmp.release()); reset stores the
\* new pointer in the target and keeps the old one in old_p.
UMoveTake ==
    /\ upc = "built"
    /\ USetHeap(UMoveTakeOp(UHeap, udst, Tmp))
    /\ uold' = uptr[udst]
    /\ upc' = "taken"
    /\ uop' = "take"
    /\ UNCHANGED <<uscope, up, udst, unew>>
    /\ UNCHANGED <<svars, rvars, mvars, cvars>>

\* step 3: reset() then deletes old_p if it is not null.
UMoveDeleteOld ==
    /\ upc = "taken"
    /\ USetHeap(UDelete(UHeap, uold, MaxURes))
    /\ upc' = "assigned"
    /\ uop' = "moveassign"
    /\ UNCHANGED <<uscope, up, udst, uold, unew>>
    /\ UNCHANGED <<svars, rvars, mvars, cvars>>

\* step 4: the temporary is destroyed at the end of the full expression.
UTempDestroy ==
    /\ upc = "assigned"
    /\ USetHeap(UDestroyOwnerOp(UHeap, Tmp))
    /\ uscope' = [uscope EXCEPT ![Tmp] = "undeclared"]
    /\ upc' = "idle"
    /\ udst' = Joe
    /\ uold' = Null
    /\ unew' = Null
    /\ uop' = "tempgone"
    /\ UNCHANGED up
    /\ UNCHANGED <<svars, rvars, mvars, cvars>>

\* The closing brace of the block: a stack owner goes out of scope.
UScopeExit(o) ==
    /\ upc = "idle"
    /\ o \in UStack /\ uscope[o] = "live"
    /\ USetHeap(UDestroyOwnerOp(UHeap, o))
    /\ uscope' = [uscope EXCEPT ![o] = "gone"]
    /\ uop' = "scopeexit"
    /\ UNCHANGED <<up, upc, udst, uold, unew>>
    /\ UNCHANGED <<svars, rvars, mvars, cvars>>

\* std::cout << "who->name: " << who->name << std::endl;
UDeref(o) ==
    /\ upc = "idle"
    /\ UAccessible(o)
    /\ \E out \in UDerefOutcomes(UHeap, o) :
          /\ uop' = out
          /\ upc' = IF out = "crash" THEN "crashed" ELSE upc
    /\ UNCHANGED <<ulife, udtor, uptr, uscope, up, udst, uold, unew>>
    /\ UNCHANGED <<svars, rvars, mvars, cvars>>

UNext ==
    \/ \E o \in UStack : UConstruct(o)
    \/ \E o \in UOwners : URelease(o)
    \/ UDeleteRaw
    \/ \E a, b \in UOwners : USwap(a, b)
    \/ \E o \in UOwners : UTempConstruct(o)
    \/ UMoveTake
    \/ UMoveDeleteOld
    \/ UTempDestroy
    \/ \E o \in UStack : UScopeExit(o)
    \/ \E o \in UOwners : UDeref(o)

\* -------------------------------------------------------------- part S state

\* Stack owners of the shared_ptr block, the parent member of each Person, and
\* the weak observers.
Fredzilla == <<"fredzilla", 0>>
Temp == <<"temp", 0>>
SField(r) == <<"parent", r>>
WeakPtr(i) == <<"weakPtr", i>>

SStack == {Fredzilla, Temp}
SFields == {SField(r) : r \in SRes}
SOwners == SStack \cup SFields
SWeaks == {WeakPtr(i) : i \in 1 .. MaxWeak}

\* The heap state the shared_ptr operations transform.
SHeap == [life |-> slife, dtor |-> sdtor, ptr |-> sptr,
          cb |-> cb, strong |-> strong, weak |-> weak]

\* The owner object exists: a stack object in scope, or a member of a live Person.
SOwnerLive(o) ==
    IF o \in SFields THEN slife[o[2]] = "alive" ELSE sscope[o] = "live"

\* The live shared owners that refer to Person r.
SOwnersOf(r) == {o \in SOwners : SOwnerLive(o) /\ sptr[o] = r}

\* The live weak observers of Person r's control block.
SWeaksOf(r) == {w \in SWeaks : wscope[w] = "live" /\ wptr[w] = r}

SFresh == CHOOSE r \in SRes : slife[r] = "unborn" /\ \A q \in SRes : slife[q] = "unborn" => r <= q

SCanNew == \E r \in SRes : slife[r] = "unborn"

\* -------------------------------------------------------- part S operations

\* Faulty reference drop: the Person is deleted while one strong reference
\* is still left (off by one).
RECURSIVE SDropRefEarly(_, _, _)
SDropRefEarly(h, c, fuel) ==
    IF c = Null \/ fuel = 0 THEN h
    ELSE LET h1 == [h EXCEPT !.strong[c] = @ - 1]
         IN IF h1.strong[c] > 1 THEN h1
            ELSE LET next == h1.ptr[SField(c)]
                     h2 == [h1 EXCEPT !.life[c] = "dead",
                                      !.dtor[c] = Min(@ + 1, 2),
                                      !.ptr[SField(c)] = Null]
                     h3 == SDropRefEarly(h2, next, fuel - 1)
                 IN [h3 EXCEPT !.cb[c] = IF h3.weak[c] = 0 THEN "freed" ELSE @]

\* One strong reference to c's control block is given up (~shared_ptr, reset):
\* the strong count is decremented; at 0 the Person is deleted, which runs
\* ~Person() and destroys its parent member (giving up that reference in turn);
\* the control block is freed once no weak observer is left either.
RECURSIVE SDropRef(_, _, _)
SDropRef(h, c, fuel) ==
    IF c = Null \/ fuel = 0 THEN h
    ELSE LET h1 == [h EXCEPT !.strong[c] = @ - 1]
         IN IF h1.strong[c] # 0 THEN h1
            ELSE LET next == h1.ptr[SField(c)]
                     h2 == [h1 EXCEPT !.life[c] = "dead",
                                      !.dtor[c] = Min(@ + 1, 2),
                                      !.ptr[SField(c)] = Null]
                     h3 == SDropRef(h2, next, fuel - 1)
                 IN [h3 EXCEPT !.cb[c] = IF h3.weak[c] = 0 THEN "freed" ELSE @]

\* `delete r` on a raw pointer: ~Person() runs, then the parent member is
\* destroyed and gives up its reference.
SDeletePerson(h, r) ==
    LET next == h.ptr[SField(r)]
        h1 == [h EXCEPT !.life[r] = "dead",
                        !.dtor[r] = Min(@ + 1, 2),
                        !.ptr[SField(r)] = Null]
    IN SDropRef(h1, next, MaxSRes)

\* std::shared_ptr<Person>(p): a new control block with strong count 1.
SWrapOp(h, o, r) ==
    [h EXCEPT !.cb[r] = "live", !.strong[r] = 1, !.weak[r] = 0, !.ptr[o] = r]

\* Faulty copy: the pointer is copied, the strong count is not incremented.
SCopyNoCount(h, dst, src) == [h EXCEPT !.ptr[dst] = h.ptr[src]]

\* Copy-assignment to an empty owner: one more strong reference.
SCopyOp(h, dst, src) ==
    LET c == h.ptr[src]
    IN IF c = Null THEN h
       ELSE [h EXCEPT !.strong[c] = @ + 1, !.ptr[dst] = c]

\* Faulty reset(): the reference is given up, the owner keeps its pointer.
SResetKeepsPointer(h, o) == SDropRef(h, h.ptr[o], MaxSRes)

\* Faulty reset(): the reference is given up while the owner still holds its
\* pointer; the owner is emptied afterwards.
SResetDropsFirst(h, o) ==
    LET h1 == SDropRef(h, h.ptr[o], MaxSRes)
    IN [h1 EXCEPT !.ptr[o] = Null]

\* shared_ptr::reset(): the owner is emptied, then its reference is given up.
SResetOp(h, o) == SDropRef([h EXCEPT !.ptr[o] = Null], h.ptr[o], MaxSRes)

\* Faulty lock(): no check of the strong count.
SLockUnchecked(h, dst, c) ==
    IF c # Null
    THEN [h EXCEPT !.strong[c] = @ + 1, !.ptr[dst] = c]
    ELSE [h EXCEPT !.ptr[dst] = Null]

\* Faulty lock(): the owner is returned without counting it.
SLockNoCount(h, dst, c) ==
    IF c # Null /\ h.strong[c] > 0
    THEN [h EXCEPT !.ptr[dst] = c]
    ELSE [h EXCEPT !.ptr[dst] = Null]

\* weak_ptr::lock() on an observer of control block c, stored into owner dst:
\* a new strong reference if the strong count is not 0, an empty owner otherwise.
SLockOp(h, dst, c) ==
    IF c # Null /\ h.strong[c] > 0
    THEN [h EXCEPT !.strong[c] = @ + 1, !.ptr[dst] = c]
    ELSE [h EXCEPT !.ptr[dst] = Null]

\* Assigning a shared owner to an empty weak_ptr: one more weak reference.
WObserveOp(h, c) == IF c = Null THEN h ELSE [h EXCEPT !.weak[c] = @ + 1]

\* Faulty ~weak_ptr(): the control block is freed when the weak count reaches
\* 0 although strong references are left.
WDropFreesEarly(h, c) ==
    IF c = Null THEN h
    ELSE LET h1 == [h EXCEPT !.weak[c] = @ - 1]
         IN [h1 EXCEPT !.cb[c] = IF h1.weak[c] = 0 THEN "freed" ELSE @]

\* ~weak_ptr(): the weak count is decremented; the control block is freed when
\* it reaches 0 and no strong reference is left.
WDropOp(h, c) ==
    IF c = Null THEN h
    ELSE LET h1 == [h EXCEPT !.weak[c] = @ - 1]
         IN [h1 EXCEPT !.cb[c] = IF h1.weak[c] = 0 /\ h1.strong[c] = 0 THEN "freed" ELSE @]

\* shared_ptr::use_count() and weak_ptr::use_count().
SUseCount(o) == IF sptr[o] = Null THEN 0 ELSE strong[sptr[o]]
WUseCount(w) == IF wptr[w] = Null THEN 0 ELSE strong[wptr[w]]

SInit ==
    /\ slife = [r \in SRes |-> "unborn"]
    /\ sdtor = [r \in SRes |-> 0]
    /\ sraw = [r \in SRes |-> FALSE]
    /\ sptr = [o \in SOwners |-> Null]
    /\ sscope = [o \in SStack |-> "undeclared"]
    /\ cb = [r \in SRes |-> "none"]
    /\ strong = [r \in SRes |-> 0]
    /\ weak = [r \in SRes |-> 0]
    /\ wptr = [w \in SWeaks |-> Null]
    /\ wscope = [w \in SWeaks |-> "live"]

SSetHeap(h) ==
    /\ slife' = h.life
    /\ sdtor' = h.dtor
    /\ sptr' = h.ptr
    /\ cb' = h.cb
    /\ strong' = h.strong
    /\ weak' = h.weak

\* Person* blossom = new Person("Blossom");
SNewRaw ==
    /\ SCanNew
    /\ slife' = [slife EXCEPT ![SFresh] = "alive"]
    /\ sraw' = [sraw EXCEPT ![SFresh] = TRUE]
    /\ UNCHANGED <<sdtor, sptr, sscope, cb, strong, weak, wptr, wscope>>
    /\ UNCHANGED <<uvars, rvars, mvars, cvars>>

\* delete blossom;
SDeleteRaw(r) ==
    /\ sraw[r] /\ slife[r] = "alive"
    /\ SSetHeap(SDeletePerson(SHeap, r))
    /\ sraw' = [sraw EXCEPT ![r] = FALSE]
    /\ UNCHANGED <<sscope, wptr, wscope>>
    /\ UNCHANGED <<uvars, rvars, mvars, cvars>>

\* blossom->parent = std::shared_ptr<Person>(new Person("Professor"));
SAssignNew(dst) ==
    /\ dst \in SFields /\ SOwnerLive(dst) /\ sptr[dst] = Null
    /\ SCanNew
    /\ SSetHeap(SWrapOp([SHeap EXCEPT !.life[SFresh] = "alive"], dst, SFresh))
    /\ UNCHANGED <<sraw, sscope, wptr, wscope>>
    /\ UNCHANGED <<uvars, rvars, mvars, cvars>>

\* std::shared_ptr<Person> fredzilla = std::shared_ptr<Person>(new Person("Fredzilla"));
SConstructNew(o) ==
    /\ o = Fredzilla /\ sscope[o] = "undeclared"
    /\ SCanNew
    /\ SSetHeap(SWrapOp([SHeap EXCEPT !.life[SFresh] = "alive"], o, SFresh))
    /\ sscope' = [sscope EXCEPT ![o] = "live"]
    /\ UNCHANGED <<sraw, wptr, wscope>>
    /\ UNCHANGED <<uvars, rvars, mvars, cvars>>

\* fred->parent = std::shared_ptr<Person>(fred);
SAssignRaw(dst, r) ==
    /\ dst \in SFields /\ SOwnerLive(dst) /\ sptr[dst] = Null
    /\ sraw[r] /\ slife[r] = "alive"
    /\ SSetHeap(SWrapOp(SHeap, dst, r))
    /\ sraw' = [sraw EXCEPT ![r] = FALSE]
    /\ UNCHANGED <<sscope, wptr, wscope>>
    /\ UNCHANGED <<uvars, rvars, mvars, cvars>>

\* bubbles->parent = blossom->parent;
SCopyAssign(dst, src) ==
    /\ dst \in SFields /\ SOwnerLive(dst) /\ sptr[dst] = Null
    /\ SOwnerLive(src) /\ sptr[src] # Null
    /\ SSetHeap(SCopyOp(SHeap, dst, src))
    /\ UNCHANGED <<sraw, sscope, wptr, wscope>>
    /\ UNCHANGED <<uvars, rvars, mvars, cvars>>

\* fred->parent.reset();
SReset(o) ==
    /\ SOwnerLive(o)
    /\ SSetHeap(SResetOp(SHeap, o))
    /\ UNCHANGED <<sraw, sscope, wptr, wscope>>
    /\ UNCHANGED <<uvars, rvars, mvars, cvars>>

\* The closing brace of the inner block: temp, then fredzilla, is destroyed.
SScopeExit(o) ==
    /\ o \in SStack /\ sscope[o] = "live"
    /\ o = Fredzilla => sscope[Temp] # "live"
    /\ SSetHeap(SResetOp(SHeap, o))
    /\ sscope' = [sscope EXCEPT ![o] = "gone"]
    /\ UNCHANGED <<sraw, wptr, wscope>>
    /\ UNCHANGED <<uvars, rvars, mvars, cvars>>

\* weakPtr = fredzilla;
WAssign(w, src) ==
    /\ wscope[w] = "live" /\ wptr[w] = Null
    /\ SOwnerLive(src) /\ sptr[src] # Null
    /\ SSetHeap(WObserveOp(SHeap, sptr[src]))
    /\ wptr' = [wptr EXCEPT ![w] = sptr[src]]
    /\ UNCHANGED <<sraw, sscope, wscope>>
    /\ UNCHANGED <<uvars, rvars, mvars, cvars>>

\* std::shared_ptr<Person> temp = weakPtr.lock();
SLock(w) ==
    /\ wscope[w] = "live"
    /\ sscope[Temp] = "undeclared"
    /\ SSetHeap(SLockOp(SHeap, Temp, wptr[w]))
    /\ sscope' = [sscope EXCEPT ![Temp] = "live"]
    /\ UNCHANGED <<sraw, wptr, wscope>>
    /\ UNCHANGED <<uvars, rvars, mvars, cvars>>

\* The closing brace of the outer block: weakPtr is destroyed.
WScopeExit(w) ==
    /\ wscope[w] = "live"
    /\ SSetHeap(WDropOp(SHeap, wptr[w]))
    /\ wptr' = [wptr EXCEPT ![w] = Null]
    /\ wscope' = [wscope EXCEPT ![w] = "gone"]
    /\ UNCHANGED <<sraw, sscope>>
    /\ UNCHANGED <<uvars, rvars, mvars, cvars>>

SNext ==
    \/ SNewRaw
    \/ \E r \in SRes : SDeleteRaw(r)
    \/ \E o \in SOwners : SAssignNew(o)
    \/ \E o \in SStack : SConstructNew(o)
    \/ \E o \in SOwners, r \in SRes : SAssignRaw(o, r)
    \/ \E dst, src \in SOwners : SCopyAssign(dst, src)
    \/ \E o \in SOwners : SReset(o)
    \/ \E o \in SStack : SScopeExit(o)
    \/ \E w \in SWeaks, src \in SOwners : WAssign(w, src)
    \/ \E w \in SWeaks : SLock(w)
    \/ \E w \in SWeaks : WScopeExit(w)

\* -------------------------------------------------------------- part R state

RHeap == [life |-> rlife, del |-> rdel, stack |-> rstack, err |-> rerr]

\* `new Person(..)`: the next object that has not been created yet.
RFresh == CHOOSE r \in RRes : rlife[r] = "unborn" /\ \A q \in RRes : rlife[q] = "unborn" => r <= q

RCanNew == \E r \in RRes : rlife[r] = "unborn"

\* The ~Person() call that is executing.
RTop == rstack[Len(rstack)]

\* Persons main can name: held ones and those reached through ->parent.
RECURSIVE RReachFrom(_, _)
RReachFrom(r, fuel) ==
    IF r = Null \/ fuel = 0 \/ rlife[r] # "alive" THEN {}
    ELSE {r} \cup RReachFrom(rparent[r], fuel - 1)

RReach == UNION {RReachFrom(r, MaxRRes) : r \in rheld}

\* -------------------------------------------------------- part R operations

\* Faulty delete: deleting a Person that was deleted before does nothing.
RBeginIgnoresDead(h, q) ==
    IF h.life[q] = "alive"
    THEN {[h EXCEPT !.life[q] = "destructing",
                    !.del[q] = @ + 1,
                    !.stack = Append(@, q)]}
    ELSE {h}

\* `delete q`: ~Person() is entered and its body runs (prints "destructed").
\* On a Person that was deleted before this is undefined behaviour: the
\* destructor is run on freed memory and the program is aborted by the
\* allocator, or goes on with a corrupted heap.
RBeginOutcomes(h, q) ==
    IF h.life[q] = "alive"
    THEN {[h EXCEPT !.life[q] = "destructing",
                    !.del[q] = @ + 1,
                    !.stack = Append(@, q)]}
    ELSE {[h EXCEPT !.del[q] = Min(@ + 1, 2), !.err = e] : e \in {"abort", "corrupt"}}

\* Faulty destructor: the parent is never deleted.
RParentLeaked(par, r) == Null

\* The pointer ~Person() deletes after its body: the parent.
RParentToDelete(par, r) == par[r]

RInit ==
    /\ rkind = "unset"
    /\ rlife = [r \in RRes |-> "unborn"]
    /\ rdel = [r \in RRes |-> 0]
    /\ rparent = [r \in RRes |-> Null]
    /\ rheld = {}
    /\ rstack = <<>>
    /\ rerr = "none"

RSetHeap(h) ==
    /\ rlife' = h.life
    /\ rdel' = h.del
    /\ rstack' = h.stack
    /\ rerr' = h.err

\* Person* tim = new Person("tim");   std::unique_ptr<Person> joe(new Person(..));
\* The first `new` of a run fixes which of the two blocks is being run.
RNew ==
    /\ rerr = "none" /\ rstack = <<>>
    /\ RCanNew
    /\ rlife' = [rlife EXCEPT ![RFresh] = "alive"]
    /\ rheld' = rheld \cup {RFresh}
    /\ rkind' \in (IF rkind = "unset" THEN {"raw", "unique"} ELSE {rkind})
    /\ UNCHANGED <<rdel, rparent, rstack, rerr>>
    /\ UNCHANGED <<uvars, svars, mvars, cvars>>

\* tim->parent = new Person("timothy");   joe->parent = std::unique_ptr<Person>(new Person(..));
RLinkNew(r) ==
    /\ rerr = "none" /\ rstack = <<>>
    /\ r \in RReach /\ rparent[r] = Null
    /\ RCanNew
    /\ rlife' = [rlife EXCEPT ![RFresh] = "alive"]
    /\ rparent' = [rparent EXCEPT ![r] = RFresh]
    /\ UNCHANGED <<rkind, rdel, rheld, rstack, rerr>>
    /\ UNCHANGED <<uvars, svars, mvars, cvars>>

\* delete tim;   delete jim;   delete p;
RDeleteHeld(r) ==
    /\ rerr = "none" /\ rstack = <<>>
    /\ r \in rheld
    /\ \E h \in RBeginOutcomes(RHeap, r) : RSetHeap(h)
    /\ rheld' = rheld \ {r}
    /\ UNCHANGED <<rkind, rparent>>
    /\ UNCHANGED <<uvars, svars, mvars, cvars>>

\* delete jim->parent;
RDeleteParent(r) ==
    /\ rerr = "none" /\ rstack = <<>>
    /\ rkind = "raw"
    /\ r \in rheld /\ rparent[r] # Null
    /\ \E h \in RBeginOutcomes(RHeap, rparent[r]) : RSetHeap(h)
    /\ UNCHANGED <<rkind, rparent, rheld>>
    /\ UNCHANGED <<uvars, svars, mvars, cvars>>

\* jim->parent = nullptr;
RClearParent(r) ==
    /\ rerr = "none" /\ rstack = <<>>
    /\ rkind = "raw"
    /\ r \in rheld /\ rparent[r] # Null
    /\ rparent' = [rparent EXCEPT ![r] = Null]
    /\ UNCHANGED <<rkind, rlife, rdel, rheld, rstack, rerr>>
    /\ UNCHANGED <<uvars, svars, mvars, cvars>>

\* ~Person() of the raw-pointer block after its body:
\* if (parent != nullptr) { delete parent; }
RDtorParentRaw ==
    /\ rerr = "none" /\ rstack # <<>>
    /\ rkind = "raw"
    /\ rlife[RTop] = "destructing"
    /\ RParentToDelete(rparent, RTop) # Null
    /\ \E h \in RBeginOutcomes([RHeap EXCEPT !.life[RTop] = "unwinding"],
                                RParentToDelete(rparent, RTop)) : RSetHeap(h)
    /\ UNCHANGED <<rkind, rparent, rheld>>
    /\ UNCHANGED <<uvars, svars, mvars, cvars>>

\* ~Person() of the unique_ptr block after its body: the parent member is
\* destroyed, and ~unique_ptr() deletes the Person it owns, if any.
RDtorParentMember ==
    /\ rerr = "none" /\ rstack # <<>>
    /\ rkind = "unique"
    /\ rlife[RTop] = "destructing"
    /\ RParentToDelete(rparent, RTop) # Null
    /\ \E h \in RBeginOutcomes([RHeap EXCEPT !.life[RTop] = "unwinding"],
                                RParentToDelete(rparent, RTop)) : RSetHeap(h)
    /\ UNCHANGED <<rkind, rparent, rheld>>
    /\ UNCHANGED <<uvars, svars, mvars, cvars>>

\* ~Person() returns (there was no parent, or its delete has returned) and the
\* delete expression frees the Person's memory.
RFree ==
    /\ rerr = "none" /\ rstack # <<>>
    /\ \/ rlife[RTop] = "destructing" /\ RParentToDelete(rparent, RTop) = Null
       \/ rlife[RTop] = "unwinding"
    /\ rlife' = [rlife EXCEPT ![RTop] = "dead"]
    /\ rstack' = SubSeq(rstack, 1, Len(rstack) - 1)
    /\ UNCHANGED <<rkind, rdel, rparent, rheld, rerr>>
    /\ UNCHANGED <<uvars, svars, mvars, cvars>>

RNext ==
    \/ RNew
    \/ \E r \in RRes : RLinkNew(r)
    \/ \E r \in RRes : RDeleteHeld(r)
    \/ \E r \in RRes : RDeleteParent(r)
    \/ \E r \in RRes : RClearParent(r)
    \/ RDtorParentRaw
    \/ RDtorParentMember
    \/ RFree

\* -------------------------------------------------------------- part M state

\* The Person objects main() creates, in the order of their `new`.
Tim == 1
Timothy == 2
Jim == 3
Jimothy == 4
MRawRes == {Tim, Timothy, Jim, Jimothy}

JoeThird == 1
JoeSecond == 2
JoeFirst == 3
WhoFirst == 4
WhatFirst == 5
WhoSecond == 6
WhatSecond == 7
MUniqRes == {JoeThird, JoeSecond, JoeFirst, WhoFirst, WhatFirst, WhoSecond, WhatSecond}

Blossom == 1
Bubbles == 2
Buttercup == 3
Professor == 4
Fred == 5
FredzillaPerson == 6
MSharedRes == {Blossom, Bubbles, Buttercup, Professor, Fred, FredzillaPerson}

\* The temporary shared_ptr returned by weakPtr.lock() in the last `if`.
LockTmp == <<"locktmp", 0>>

MUniqOwners == UStack \cup {Tmp} \cup {UField(r) : r \in MUniqRes}
MSharedOwners == {Fredzilla, Temp, LockTmp} \cup {SField(r) : r \in MSharedRes}

\* One statement (or one step of a statement) of main.
Stmt(line, op, a, b) == [line |-> line, op |-> op, a |-> a, b |-> b]

\* main(), statement by statement.  `a` and `b` are the operands: Persons,
\* owners, or the number of ->parent hops from the owner to the target.
MProg ==
    << Stmt(60, "cout", 0, 0),
       Stmt(61, "rnew", Tim, 0),
       Stmt(62, "rlink", Tim, Timothy),
       Stmt(64, "rdelete", Tim, 0),
       Stmt(68, "cin", 0, 0),
       Stmt(71, "rnew", Jim, 0),
       Stmt(72, "rlink", Jim, Jimothy),
       Stmt(74, "rdelparent", Jim, 0),
       Stmt(81, "rclear", Jim, 0),
       Stmt(82, "rdelete", Jim, 0),
       Stmt(91, "cin", 0, 0),
       Stmt(119, "cout", 0, 0),
       Stmt(120, "uconstruct", Joe, JoeThird),
       Stmt(126, "utemp", JoeSecond, 0),
       Stmt(126, "utake", Joe, 1),
       Stmt(126, "udelold", 0, 0),
       Stmt(126, "utempgone", 0, 0),
       Stmt(133, "utemp", JoeFirst, 0),
       Stmt(133, "utake", Joe, 2),
       Stmt(133, "udelold", 0, 0),
       Stmt(133, "utempgone", 0, 0),
       Stmt(139, "urelease", Joe, 0),
       Stmt(142, "udelete", 0, 0),
       Stmt(143, "cin", 0, 0),
       Stmt(149, "uconstruct", Who, WhoFirst),
       Stmt(150, "uconstruct", What, WhatFirst),
       Stmt(152, "uswap", Who, What),
       Stmt(153, "uderef", Who, 0),
       Stmt(154, "uderef", What, 0),
       Stmt(155, "cin", 0, 0),
       Stmt(161, "utemp", WhoSecond, 0),
       Stmt(161, "utake", Who, 0),
       Stmt(161, "udelold", 0, 0),
       Stmt(161, "utempgone", 0, 0),
       Stmt(163, "urelease", What, 0),
       Stmt(163, "udelete", 0, 0),
       Stmt(164, "utemp", WhatSecond, 0),
       Stmt(164, "utake", What, 0),
       Stmt(164, "udelold", 0, 0),
       Stmt(164, "utempgone", 0, 0),
       Stmt(166, "cin", 0, 0),
       Stmt(168, "uexit", What, 0),
       Stmt(168, "uexit", Who, 0),
       Stmt(168, "uexit", Joe, 0),
       Stmt(169, "cin", 0, 0),
       Stmt(207, "snew", Blossom, 0),
       Stmt(208, "snew", Bubbles, 0),
       Stmt(209, "snew", Buttercup, 0),
       Stmt(212, "sassignnew", Blossom, Professor),
       Stmt(213, "scopy", Bubbles, Blossom),
       Stmt(214, "scopy", Buttercup, Bubbles),
       Stmt(216, "cout", 0, 0),
       Stmt(219, "sdelete", Blossom, 0),
       Stmt(221, "cout", 0, 0),
       Stmt(224, "sdelete", Bubbles, 0),
       Stmt(226, "cout", 0, 0),
       Stmt(229, "sdelete", Buttercup, 0),
       Stmt(234, "cin", 0, 0),
       Stmt(239, "snew", Fred, 0),
       Stmt(241, "sassignraw", Fred, 0),
       Stmt(247, "sreset", Fred, 0),
       Stmt(252, "cout", 0, 0),
       Stmt(256, "sconstruct", Fredzilla, FredzillaPerson),
       Stmt(257, "wassign", Fredzilla, 0),
       Stmt(259, "cout", 0, 0),
       Stmt(264, "slock", Temp, 0),
       Stmt(265, "sif", Temp, 0),
       Stmt(267, "cout", 0, 0),
       Stmt(269, "sexit", Temp, 0),
       Stmt(269, "sexit", Fredzilla, 0),
       Stmt(271, "cout", 0, 0),
       Stmt(273, "slock", LockTmp, 0),
       Stmt(273, "sifnull", LockTmp, 0),
       Stmt(275, "cout", 0, 0),
       Stmt(277, "wexit", 0, 0),
       Stmt(278, "cin", 0, 0),
       Stmt(285, "return", 0, 0) >>

\* main() has returned.
MDone == mpc > Len(MProg)

\* The next statement of main is an `op`; MArg1 and MArg2 are its operands.
MAt(op) == ~MDone /\ mr.err = "none" /\ MProg[mpc].op = op
MArg1 == MProg[mpc].a
MArg2 == MProg[mpc].b

\* -------------------------------------------------------- part M operations

\* `delete r` in the raw-pointer block: ~Person() runs and deletes the parent
\* if the pointer is not null, up the chain.  Deleting a Person that was
\* deleted before is undefined behaviour ("double").
RECURSIVE RDeleteChain(_, _, _)
RDeleteChain(h, r, fuel) ==
    IF r = Null \/ fuel = 0 THEN h
    ELSE IF h.life[r] # "alive"
    THEN [h EXCEPT !.dtor[r] = Min(@ + 1, 2), !.err = "double"]
    ELSE RDeleteChain([h EXCEPT !.life[r] = "dead", !.dtor[r] = @ + 1],
                      h.parent[r], fuel - 1)

\* What the build can do after a double delete: abort, or go on corrupted.
RDeleteOutcomes(h) ==
    IF h.err = "double" THEN {[h EXCEPT !.err = e] : e \in {"abort", "corrupt"}} ELSE {h}

\* The owner named by o->parent->...->parent with n hops.
RECURSIVE MUPath(_, _, _)
MUPath(h, o, n) == IF n = 0 THEN o ELSE UField(h.ptr[MUPath(h, o, n - 1)])

MInit ==
    /\ mpc = 1
    /\ mcin = "good"
    /\ mr = [life |-> [r \in MRawRes |-> "unborn"],
             dtor |-> [r \in MRawRes |-> 0],
             parent |-> [r \in MRawRes |-> Null],
             err |-> "none"]
    /\ mu = [life |-> [r \in MUniqRes |-> "unborn"],
             dtor |-> [r \in MUniqRes |-> 0],
             ptr |-> [o \in MUniqOwners |-> Null]]
    /\ mp = Null
    /\ mold = Null
    /\ ms = [life |-> [r \in MSharedRes |-> "unborn"],
             dtor |-> [r \in MSharedRes |-> 0],
             ptr |-> [o \in MSharedOwners |-> Null],
             cb |-> [r \in MSharedRes |-> "none"],
             strong |-> [r \in MSharedRes |-> 0],
             weak |-> [r \in MSharedRes |-> 0]]
    /\ mwptr = Null

\* std::cout << ...;  and declarations without effect on the heap
MCout ==
    /\ MAt("cout")
    /\ mpc' = mpc + 1
    /\ UNCHANGED <<mcin, mr, mu, mp, mold, ms, mwptr>>
    /\ UNCHANGED <<uvars, svars, rvars, cvars>>

\* std::cin.get();  a character is read, or the end of input is met
MCin ==
    /\ MAt("cin")
    /\ mcin' \in (IF mcin = "eof" THEN {"eof"} ELSE {"good", "eof"})
    /\ mpc' = mpc + 1
    /\ UNCHANGED <<mr, mu, mp, mold, ms, mwptr>>
    /\ UNCHANGED <<uvars, svars, rvars, cvars>>

\* Person* tim = new Person("tim");
MRawNew ==
    /\ MAt("rnew")
    /\ mr' = [mr EXCEPT !.life[MArg1] = "alive"]
    /\ mpc' = mpc + 1
    /\ UNCHANGED <<mcin, mu, mp, mold, ms, mwptr>>
    /\ UNCHANGED <<uvars, svars, rvars, cvars>>

\* tim->parent = new Person("timothy");
MRawLink ==
    /\ MAt("rlink")
    /\ mr' = [mr EXCEPT !.life[MArg2] = "alive", !.parent[MArg1] = MArg2]
    /\ mpc' = mpc + 1
    /\ UNCHANGED <<mcin, mu, mp, mold, ms, mwptr>>
    /\ UNCHANGED <<uvars, svars, rvars, cvars>>

\* delete tim;
MRawDelete ==
    /\ MAt("rdelete")
    /\ mr' \in RDeleteOutcomes(RDeleteChain(mr, MArg1, Cardinality(MRawRes)))
    /\ mpc' = mpc + 1
    /\ UNCHANGED <<mcin, mu, mp, mold, ms, mwptr>>
    /\ UNCHANGED <<uvars, svars, rvars, cvars>>

\* delete jim->parent;
MRawDeleteParent ==
    /\ MAt("rdelparent")
    /\ mr' \in RDeleteOutcomes(RDeleteChain(mr, mr.parent[MArg1], Cardinality(MRawRes)))
    /\ mpc' = mpc + 1
    /\ UNCHANGED <<mcin, mu, mp, mold, ms, mwptr>>
    /\ UNCHANGED <<uvars, svars, rvars, cvars>>

\* jim->parent = nullptr;
MRawClear ==
    /\ MAt("rclear")
    /\ mr' = [mr EXCEPT !.parent[MArg1] = Null]
    /\ mpc' = mpc + 1
    /\ UNCHANGED <<mcin, mu, mp, mold, ms, mwptr>>
    /\ UNCHANGED <<uvars, svars, rvars, cvars>>

\* std::unique_ptr<Person> joe(new Person("Joe the third"));
MUConstruct ==
    /\ MAt("uconstruct")
    /\ mu' = [mu EXCEPT !.life[MArg2] = "alive", !.ptr[MArg1] = MArg2]
    /\ mpc' = mpc + 1
    /\ UNCHANGED <<mcin, mr, mp, mold, ms, mwptr>>
    /\ UNCHANGED <<uvars, svars, rvars, cvars>>

\* joe->parent = std::unique_ptr<Person>(new Person(..));  step 1: the temporary
MUTemp ==
    /\ MAt("utemp")
    /\ mu' = [mu EXCEPT !.life[MArg1] = "alive", !.ptr[Tmp] = MArg1]
    /\ mpc' = mpc + 1
    /\ UNCHANGED <<mcin, mr, mp, mold, ms, mwptr>>
    /\ UNCHANGED <<uvars, svars, rvars, cvars>>

\* step 2: reset(tmp.release()) stores the new pointer in the target
MUTake ==
    /\ MAt("utake")
    /\ mold' = mu.ptr[MUPath(mu, MArg1, MArg2)]
    /\ mu' = UMoveTakeOp(mu, MUPath(mu, MArg1, MArg2), Tmp)
    /\ mpc' = mpc + 1
    /\ UNCHANGED <<mcin, mr, mp, ms, mwptr>>
    /\ UNCHANGED <<uvars, svars, rvars, cvars>>

\* step 3: reset() deletes old_p
MUDeleteOld ==
    /\ MAt("udelold")
    /\ mu' = UDelete(mu, mold, MaxURes)
    /\ mold' = Null
    /\ mpc' = mpc + 1
    /\ UNCHANGED <<mcin, mr, mp, ms, mwptr>>
    /\ UNCHANGED <<uvars, svars, rvars, cvars>>

\* step 4: the temporary is destroyed
MUTempGone ==
    /\ MAt("utempgone")
    /\ mu' = UDestroyOwnerOp(mu, Tmp)
    /\ mpc' = mpc + 1
    /\ UNCHANGED <<mcin, mr, mp, mold, ms, mwptr>>
    /\ UNCHANGED <<uvars, svars, rvars, cvars>>

\* Person* p = joe.release();
MURelease ==
    /\ MAt("urelease")
    /\ mp' = mu.ptr[MArg1]
    /\ mu' = UReleaseOp(mu, MArg1)
    /\ mpc' = mpc + 1
    /\ UNCHANGED <<mcin, mr, mold, ms, mwptr>>
    /\ UNCHANGED <<uvars, svars, rvars, cvars>>

\* delete p;
MUDelete ==
    /\ MAt("udelete")
    /\ mu' = UDelete(mu, mp, MaxURes)
    /\ mp' = Null
    /\ mpc' = mpc + 1
    /\ UNCHANGED <<mcin, mr, mold, ms, mwptr>>
    /\ UNCHANGED <<uvars, svars, rvars, cvars>>

\* who.swap(what);
MUSwap ==
    /\ MAt("uswap")
    /\ mu' = USwapOp(mu, MArg1, MArg2)
    /\ mpc' = mpc + 1
    /\ UNCHANGED <<mcin, mr, mp, mold, ms, mwptr>>
    /\ UNCHANGED <<uvars, svars, rvars, cvars>>

\* std::cout << "who->name: " << who->name << std::endl;
MUDeref ==
    /\ MAt("uderef")
    /\ \E out \in UDerefOutcomes(mu, MArg1) :
          mpc' = IF out = "crash" THEN 0 ELSE mpc + 1
    /\ UNCHANGED <<mcin, mr, mu, mp, mold, ms, mwptr>>
    /\ UNCHANGED <<uvars, svars, rvars, cvars>>

\* The closing brace of the unique_ptr block: what, who and joe are destroyed.
MUExit ==
    /\ MAt("uexit")
    /\ mu' = UDestroyOwnerOp(mu, MArg1)
    /\ mpc' = mpc + 1
    /\ UNCHANGED <<mcin, mr, mp, mold, ms, mwptr>>
    /\ UNCHANGED <<uvars, svars, rvars, cvars>>

\* Person* blossom = new Person("Blossom");
MSNew ==
    /\ MAt("snew")
    /\ ms' = [ms EXCEPT !.life[MArg1] = "alive"]
    /\ mpc' = mpc + 1
    /\ UNCHANGED <<mcin, mr, mu, mp, mold, mwptr>>
    /\ UNCHANGED <<uvars, svars, rvars, cvars>>

\* blossom->parent = std::shared_ptr<Person>(new Person("Professor"));
MSAssignNew ==
    /\ MAt("sassignnew")
    /\ ms' = SWrapOp([ms EXCEPT !.life[MArg2] = "alive"], SField(MArg1), MArg2)
    /\ mpc' = mpc + 1
    /\ UNCHANGED <<mcin, mr, mu, mp, mold, mwptr>>
    /\ UNCHANGED <<uvars, svars, rvars, cvars>>

\* bubbles->parent = blossom->parent;
MSCopy ==
    /\ MAt("scopy")
    /\ ms' = SCopyOp(ms, SField(MArg1), SField(MArg2))
    /\ mpc' = mpc + 1
    /\ UNCHANGED <<mcin, mr, mu, mp, mold, mwptr>>
    /\ UNCHANGED <<uvars, svars, rvars, cvars>>

\* delete blossom;
MSDelete ==
    /\ MAt("sdelete")
    /\ ms' = SDeletePerson(ms, MArg1)
    /\ mpc' = mpc + 1
    /\ UNCHANGED <<mcin, mr, mu, mp, mold, mwptr>>
    /\ UNCHANGED <<uvars, svars, rvars, cvars>>

\* fred->parent = std::shared_ptr<Person>(fred);
MSAssignRaw ==
    /\ MAt("sassignraw")
    /\ ms' = SWrapOp(ms, SField(MArg1), MArg1)
    /\ mpc' = mpc + 1
    /\ UNCHANGED <<mcin, mr, mu, mp, mold, mwptr>>
    /\ UNCHANGED <<uvars, svars, rvars, cvars>>

\* fred->parent.reset();
MSReset ==
    /\ MAt("sreset")
    /\ ms' = SResetOp(ms, SField(MArg1))
    /\ mpc' = mpc + 1
    /\ UNCHANGED <<mcin, mr, mu, mp, mold, mwptr>>
    /\ UNCHANGED <<uvars, svars, rvars, cvars>>

\* std::shared_ptr<Person> fredzilla = std::shared_ptr<Person>(new Person("Fredzilla"));
MSConstruct ==
    /\ MAt("sconstruct")
    /\ ms' = SWrapOp([ms EXCEPT !.life[MArg2] = "alive"], MArg1, MArg2)
    /\ mpc' = mpc + 1
    /\ UNCHANGED <<mcin, mr, mu, mp, mold, mwptr>>
    /\ UNCHANGED <<uvars, svars, rvars, cvars>>

\* weakPtr = fredzilla;
MWAssign ==
    /\ MAt("wassign")
    /\ ms' = WObserveOp(ms, ms.ptr[MArg1])
    /\ mwptr' = ms.ptr[MArg1]
    /\ mpc' = mpc + 1
    /\ UNCHANGED <<mcin, mr, mu, mp, mold>>
    /\ UNCHANGED <<uvars, svars, rvars, cvars>>

\* std::shared_ptr<Person> temp = weakPtr.lock();   and the lock() of the last `if`
MSLock ==
    /\ MAt("slock")
    /\ ms' = SLockOp(ms, MArg1, mwptr)
    /\ mpc' = mpc + 1
    /\ UNCHANGED <<mcin, mr, mu, mp, mold, mwptr>>
    /\ UNCHANGED <<uvars, svars, rvars, cvars>>

\* if (temp != nullptr)
MSIf ==
    /\ MAt("sif")
    /\ mpc' = IF ms.ptr[MArg1] # Null THEN mpc + 1 ELSE mpc + 2
    /\ UNCHANGED <<mcin, mr, mu, mp, mold, ms, mwptr>>
    /\ UNCHANGED <<uvars, svars, rvars, cvars>>

\* if (weakPtr.lock() == nullptr): the comparison, then the temporary is destroyed
MSIfNull ==
    /\ MAt("sifnull")
    /\ ms' = SResetOp(ms, MArg1)
    /\ mpc' = IF ms.ptr[MArg1] = Null THEN mpc + 1 ELSE mpc + 2
    /\ UNCHANGED <<mcin, mr, mu, mp, mold, mwptr>>
    /\ UNCHANGED <<uvars, svars, rvars, cvars>>

\* The closing brace of the inner block: temp, then fredzilla, is destroyed.
MSExit ==
    /\ MAt("sexit")
    /\ ms' = SResetOp(ms, MArg1)
    /\ mpc' = mpc + 1
    /\ UNCHANGED <<mcin, mr, mu, mp, mold, mwptr>>
    /\ UNCHANGED <<uvars, svars, rvars, cvars>>

\* The closing brace of the shared_ptr block: weakPtr is destroyed.
MWExit ==
    /\ MAt("wexit")
    /\ ms' = WDropOp(ms, mwptr)
    /\ mwptr' = Null
    /\ mpc' = mpc + 1
    /\ UNCHANGED <<mcin, mr, mu, mp, mold>>
    /\ UNCHANGED <<uvars, svars, rvars, cvars>>

\* return 0;
MReturn ==
    /\ MAt("return")
    /\ mpc' = mpc + 1
    /\ UNCHANGED <<mcin, mr, mu, mp, mold, ms, mwptr>>
    /\ UNCHANGED <<uvars, svars, rvars, cvars>>

MNext ==
    \/ MCout
    \/ MCin
    \/ MRawNew
    \/ MRawLink
    \/ MRawDelete
    \/ MRawDeleteParent
    \/ MRawClear
    \/ MUConstruct
    \/ MUTemp
    \/ MUTake
    \/ MUDeleteOld
    \/ MUTempGone
    \/ MURelease
    \/ MUDelete
    \/ MUSwap
    \/ MUDeref
    \/ MUExit
    \/ MSNew
    \/ MSAssignNew
    \/ MSCopy
    \/ MSDelete
    \/ MSAssignRaw
    \/ MSReset
    \/ MSConstruct
    \/ MWAssign
    \/ MSLock
    \/ MSIf
    \/ MSIfNull
    \/ MSExit
    \/ MWExit
    \/ MReturn

\* ---------------------------------------------------------------- part C

\* Faulty lock(): the count is incremented whatever it is now; the check was
\* made on the value read earlier.
CBlindIncrement(now, seen) == [ok |-> TRUE, strong |-> now + 1, seen |-> seen]

\* The compare-exchange of weak_ptr::lock(): the strong count is set to
\* seen + 1 only if it still is `seen`; otherwise the current value is read.
CCompareExchange(now, seen) ==
    IF now = seen
    THEN [ok |-> TRUE, strong |-> seen + 1, seen |-> seen]
    ELSE [ok |-> FALSE, strong |-> now, seen |-> now]

CInit ==
    /\ cstrong = MaxCOwners
    /\ clife = "alive"
    /\ cdtor = 0
    /\ cowner = [o \in COwners |-> "live"]
    /\ clock = [l \in CLockers |-> "idle"]
    /\ cseen = [l \in CLockers |-> 0]
    /\ cretry = [l \in CLockers |-> FALSE]

\* ~shared_ptr() of an owner (the closing brace destroys fredzilla): the
\* strong count is decremented atomically; the thread that brings it to 0 is
\* the one that deletes the Person.
COwnerRelease(o) ==
    /\ cowner[o] = "live"
    /\ cstrong' = cstrong - 1
    /\ cowner' = [cowner EXCEPT ![o] = IF cstrong - 1 = 0 THEN "disposing" ELSE "gone"]
    /\ UNCHANGED <<clife, cdtor, clock, cseen, cretry>>
    /\ UNCHANGED <<uvars, svars, rvars, mvars>>

\* The owner that brought the count to 0 deletes the Person.
COwnerDispose(o) ==
    /\ cowner[o] = "disposing"
    /\ clife' = "dead"
    /\ cdtor' = Min(cdtor + 1, 2)
    /\ cowner' = [cowner EXCEPT ![o] = "gone"]
    /\ UNCHANGED <<cstrong, clock, cseen, cretry>>
    /\ UNCHANGED <<uvars, svars, rvars, mvars>>

\* weakPtr.lock(), first step: the strong count is read.
CLockLoad(l) ==
    /\ clock[l] = "idle"
    /\ cseen' = [cseen EXCEPT ![l] = cstrong]
    /\ clock' = [clock EXCEPT ![l] = "loaded"]
    /\ UNCHANGED <<cstrong, clife, cdtor, cowner, cretry>>
    /\ UNCHANGED <<uvars, svars, rvars, mvars>>

\* lock() read 0: it returns an empty shared_ptr.
CLockFail(l) ==
    /\ clock[l] = "loaded" /\ cseen[l] = 0
    /\ clock' = [clock EXCEPT ![l] = "empty"]
    /\ UNCHANGED <<cstrong, clife, cdtor, cowner, cseen, cretry>>
    /\ UNCHANGED <<uvars, svars, rvars, mvars>>

\* lock() read a count above 0: compare-exchange to count + 1.  On success it
\* returns an owner; on failure it goes round the loop with the value read.
CLockCas(l) ==
    /\ clock[l] = "loaded" /\ cseen[l] # 0
    /\ LET x == CCompareExchange(cstrong, cseen[l])
       IN /\ cstrong' = x.strong
          /\ cseen' = [cseen EXCEPT ![l] = x.seen]
          /\ clock' = [clock EXCEPT ![l] = IF x.ok THEN "owner" ELSE "loaded"]
          /\ cretry' = [cretry EXCEPT ![l] = @ \/ ~x.ok]
    /\ UNCHANGED <<clife, cdtor, cowner>>
    /\ UNCHANGED <<uvars, svars, rvars, mvars>>

\* The owner returned by lock() (temp) is destroyed.
CLockedRelease(l) ==
    /\ clock[l] = "owner"
    /\ cstrong' = cstrong - 1
    /\ clock' = [clock EXCEPT ![l] = IF cstrong - 1 = 0 THEN "disposing" ELSE "gone"]
    /\ UNCHANGED <<clife, cdtor, cowner, cseen, cretry>>
    /\ UNCHANGED <<uvars, svars, rvars, mvars>>

\* The owner returned by lock() was the last one: its thread deletes the Person.
CLockedDispose(l) ==
    /\ clock[l] = "disposing"
    /\ clife' = "dead"
    /\ cdtor' = Min(cdtor + 1, 2)
    /\ clock' = [clock EXCEPT ![l] = "gone"]
    /\ UNCHANGED <<cstrong, cowner, cseen, cretry>>
    /\ UNCHANGED <<uvars, svars, rvars, mvars>>

CNext ==
    \/ \E o \in COwners : COwnerRelease(o)
    \/ \E o \in COwners : COwnerDispose(o)
    \/ \E l \in CLockers : CLockLoad(l)
    \/ \E l \in CLockers : CLockFail(l)
    \/ \E l \in CLockers : CLockCas(l)
    \/ \E l \in CLockers : CLockedRelease(l)
    \/ \E l \in CLockers : CLockedDispose(l)

\* ------------------------------------------------------------ specifications

Init == UInit /\ SInit /\ RInit /\ MInit /\ CInit

\* The unique_ptr block.
SpecU == Init /\ [][UNext]_vars

\* The shared_ptr / weak_ptr block.
SpecS == Init /\ [][SNext]_vars

\* The raw-pointer block and the destructor chains of both Person classes.
SpecR == Init /\ [][RNext]_vars

\* main() from its first statement to `return 0`.
SpecM == Init /\ [][MNext]_vars

\* weak_ptr::lock() racing with the destruction of the shared owners.
SpecC == Init /\ [][CNext]_vars

\* ------------------------------------------------------------------- claims

\* C1: for every Person managed by a control block, use_count() of every live
\* shared owner of it equals the number of live shared owners referring to it
\* (the strong count is kept by construct = 1, copy + 1, destroy - 1), and the
\* Person is alive exactly while that number is greater than 0, its destructor
\* having run exactly once when it is not.
C1_UseCountIsOwners ==
    \A r \in SRes :
        cb[r] # "none" =>
            /\ strong[r] = Cardinality(SOwnersOf(r))
            /\ \A o \in SOwnersOf(r) : SUseCount(o) = Cardinality(SOwnersOf(r))
            /\ (slife[r] = "alive") <=> (Cardinality(SOwnersOf(r)) > 0)
            /\ sdtor[r] = IF Cardinality(SOwnersOf(r)) > 0 THEN 0 ELSE 1

\* A copy was made, the first owner (fredzilla) was then destroyed, and the
\* Person lives on with the remaining owner: use_count() is back to 1.
C1_Witness ==
    /\ sscope[Fredzilla] = "gone"
    /\ cb[1] = "live" /\ slife[1] = "alive"
    /\ SOwnersOf(1) = {SField(2)}
    /\ SUseCount(SField(2)) = 1

\* What an observer sees once no shared owner of the observed Person is left.
C2_ExpiredState ==
    \A w \in SWeaks :
        (wscope[w] = "live" /\ wptr[w] # Null /\ SOwnersOf(wptr[w]) = {}) =>
            /\ slife[wptr[w]] = "dead"
            /\ sdtor[wptr[w]] = 1
            /\ cb[wptr[w]] = "live"
            /\ WUseCount(w) = 0
            /\ SLockOp(SHeap, Temp, wptr[w]).ptr[Temp] = Null
            /\ SLockOp(SHeap, Temp, wptr[w]).strong = strong

\* A destroyed Person stays destroyed, a Person without owners gets none.
C2_NeverRevived ==
    \A r \in SRes :
        /\ slife[r] = "dead" => slife'[r] = "dead" /\ sdtor'[r] = sdtor[r]
        /\ (cb[r] # "none" /\ SOwnersOf(r) = {}) =>
               (SOwnersOf(r))' = {} /\ strong'[r] = 0

\* C2: a weak observer of a Person none of whose shared owners is left sees a
\* destroyed Person, use_count() 0 and an empty lock(); no owner of a Person
\* without owners ever appears again and a destroyed Person stays destroyed.
C2_WeakObserverExpires == [](C2_ExpiredState) /\ [][C2_NeverRevived]_vars

\* The only strong owner was destroyed while weakPtr observed, and the lock()
\* done afterwards returned an empty temp.
C2_Witness ==
    /\ sscope[Fredzilla] = "gone"
    /\ sscope[Temp] = "live" /\ sptr[Temp] = Null
    /\ \E w \in SWeaks :
           /\ wscope[w] = "live" /\ wptr[w] # Null
           /\ slife[wptr[w]] = "dead"
           /\ SOwnersOf(wptr[w]) = {}

\* The effect of weakPtr = owner, of lock() and of destroying the locked owner
\* in the current state.
C3_LockWhileAlive ==
    /\ \A src \in SOwners :
           (SOwnerLive(src) /\ sptr[src] # Null) =>
               WObserveOp(SHeap, sptr[src]).strong = strong
    /\ \A w \in SWeaks :
           (wscope[w] = "live" /\ wptr[w] # Null /\ strong[wptr[w]] > 0
                /\ sscope[Temp] = "undeclared") =>
               LET c == wptr[w]
                   locked == SLockOp(SHeap, Temp, c)
                   dropped == SResetOp(locked, Temp)
               IN /\ locked.ptr[Temp] = c
                  /\ locked.strong[c] = strong[c] + 1
                  /\ locked.life[c] = "alive"
                  /\ dropped.strong[c] = strong[c]
                  /\ dropped.life[c] = "alive"
                  /\ dropped.dtor[c] = 0
                  /\ dropped.cb[c] = "live"

\* The same effects on the steps the block takes.
C3_StepLock ==
    /\ (wptr' # wptr /\ strong' # strong) =>
           ~(\E w \in SWeaks, src \in SOwners : WAssign(w, src))
    /\ (sscope[Temp] = "undeclared" /\ sscope'[Temp] = "live") =>
           \A w \in SWeaks :
               (wptr[w] # Null /\ strong[wptr[w]] > 0 /\ SLock(w)) =>
                   /\ sptr'[Temp] = wptr[w]
                   /\ strong'[wptr[w]] = strong[wptr[w]] + 1
    /\ (sscope[Temp] = "live" /\ sscope'[Temp] = "gone") =>
           \A r \in SRes :
               (sptr[Temp] = r /\ strong[r] > 1 /\ SScopeExit(Temp)) =>
                   /\ strong'[r] = strong[r] - 1
                   /\ slife'[r] = "alive"

\* C3: assigning a shared owner to a weak observer leaves every strong count
\* unchanged; while the observed strong count n is greater than 0, lock()
\* returns an owner of the same Person and the count becomes n + 1; destroying
\* that owner brings the count back to n and leaves the Person alive.
C3_LockAddsOneOwner == [](C3_LockWhileAlive) /\ [][C3_StepLock]_vars

\* temp came from lock() on an observer of a live Person and was destroyed
\* again: the Person is alive with the count it had before the lock().
C3_Witness ==
    /\ sscope[Temp] = "gone"
    /\ sscope[Fredzilla] = "live" /\ sptr[Fredzilla] = 1
    /\ strong[1] = 1 /\ slife[1] = "alive"
    /\ \E w \in SWeaks : wscope[w] = "live" /\ wptr[w] = 1

\* The live unique owners that refer to Person r.
UOwnersOf(r) == {o \in UOwners : UOwnerLive(o) /\ uptr[o] = r}

\* The Person p points to is alive and has no owner.
C4_ReleasedState ==
    up # Null =>
        /\ ulife[up] = "alive"
        /\ udtor[up] = 0
        /\ UOwnersOf(up) = {}

\* The effect of a release() step; only `delete p` ends the life of *p.
C4_ReleaseStep ==
    /\ uop' = "release" =>
           /\ ulife' = ulife
           /\ udtor' = udtor
           /\ \A o \in UOwners :
                  URelease(o) => (up' = uptr[o] /\ uptr'[o] = Null)
    /\ (up # Null /\ ulife'[up] # "alive") => (UDeleteRaw /\ udtor'[up] = 1)

\* C4: release() returns exactly the Person the owner held, leaves the owner
\* empty and destroys nothing; while the returned pointer p is held no owner
\* refers to that Person and it stays alive through every later step,
\* the destruction of the emptied owner included, until `delete p`.
C4_ReleaseKeepsResource == [](C4_ReleasedState) /\ [][C4_ReleaseStep]_vars

\* joe was constructed on a Person, released it and then went out of scope:
\* the Person is still alive and only p refers to it.
C4_Witness ==
    /\ uop = "scopeexit"
    /\ uscope[Joe] = "gone" /\ uscope[Who] = "undeclared" /\ uscope[What] = "undeclared"
    /\ up = 1 /\ ulife[1] = "alive" /\ udtor[1] = 0

\* C5: no Person's destructor ever runs twice, a Person is dead exactly when
\* its destructor has run once, and destroying a stack owner that owns r runs
\* r's destructor exactly once.
C5_DestroyedOnce ==
    /\ \A r \in URes :
           /\ udtor[r] <= 1
           /\ (ulife[r] = "dead") <=> (udtor[r] = 1)
    /\ \A o \in UStack \cup {Tmp} :
           (UOwnerLive(o) /\ uptr[o] # Null) =>
               /\ udtor[uptr[o]] = 0
               /\ UDestroyOwnerOp(UHeap, o).dtor[uptr[o]] = 1
               /\ UDestroyOwnerOp(UHeap, o).life[uptr[o]] = "dead"
               /\ \A r \in URes : UDestroyOwnerOp(UHeap, o).dtor[r] <= 1

\* A stack owner that owned a chain of two Persons went out of scope: both
\* are destroyed, each once.
C5_Witness ==
    /\ uop = "scopeexit"
    /\ ulife[1] = "dead" /\ udtor[1] = 1
    /\ ulife[2] = "dead" /\ udtor[2] = 1

\* C6: at most one live unique owner refers to a given Person, and a Person
\* referred to by the raw pointer p has no owner at all (no operation of the
\* block copies an owner).
C6_SingleOwner ==
    \A r \in URes :
        /\ Cardinality(UOwnersOf(r)) <= 1
        /\ UOwnersOf(r) # {} => ulife[r] = "alive" /\ up # r

\* After a swap and a move-assignment, who and what own different Persons.
C6_Witness ==
    /\ uop = "tempgone"
    /\ uptr[Who] # Null /\ uptr[What] # Null
    /\ uptr[Who] > uptr[What]
    /\ udtor[1] = 1

\* swap() applied to two owners of the current heap exchanges their pointers
\* and changes nothing else; applied twice it gives the current heap back.
C7_SwapTwice ==
    \A a, b \in UOwners :
        a # b =>
            LET h == USwapOp(UHeap, a, b)
            IN /\ h.ptr[a] = uptr[b]
               /\ h.ptr[b] = uptr[a]
               /\ \A o \in UOwners \ {a, b} : h.ptr[o] = uptr[o]
               /\ h.life = ulife /\ h.dtor = udtor
               /\ USwapOp(h, a, b) = UHeap

\* A swap() step changes no Person and no owner, or the pointers of exactly
\* two owners, which it exchanges.
C7_SwapStep ==
    uop' = "swap" =>
        LET changed == {o \in UOwners : uptr'[o] # uptr[o]}
        IN /\ ulife' = ulife /\ udtor' = udtor /\ up' = up
           /\ \/ changed = {}
              \/ \E a, b \in changed :
                     /\ a # b /\ changed = {a, b}
                     /\ uptr'[a] = uptr[b] /\ uptr'[b] = uptr[a]

\* C7: swap() exchanges the Persons of the two owners, changes no other
\* owner, constructs and destroys nothing, and swapping twice restores the
\* heap.
C7_SwapExchanges == [](C7_SwapTwice) /\ [][C7_SwapStep]_vars

\* who and what were constructed in this order and then swapped.
C7_Witness ==
    /\ uop = "swap"
    /\ uscope[Joe] = "undeclared"
    /\ uptr[Who] = 2 /\ uptr[What] = 1
    /\ \A r \in URes : ulife[r] # "dead"

\* C8 as stated: the target's previous Person is already destroyed at the
\* moment the target takes ownership of the source's Person.
C8_DestroysBeforeTaking ==
    (upc = "taken" /\ uold # Null) => ulife[uold] = "dead"

\* The heap after the target took the pointer and after old_p was deleted.
C8_TakenThenDestroyed ==
    /\ upc = "taken" =>
           /\ uptr[udst] = unew /\ uptr[Tmp] = Null
           /\ ulife[unew] = "alive" /\ udtor[unew] = 0
           /\ uold # Null => ulife[uold] = "alive" /\ udtor[uold] = 0
    /\ upc = "assigned" =>
           /\ uptr[udst] = unew /\ uptr[Tmp] = Null
           /\ ulife[unew] = "alive" /\ udtor[unew] = 0
           /\ uold # Null => ulife[uold] = "dead" /\ udtor[uold] = 1

\* Destroying the emptied temporary changes no Person.
C8_TempDestroyStep ==
    UTempDestroy =>
        /\ ulife' = ulife /\ udtor' = udtor
        /\ uptr'[udst] = unew /\ ulife'[unew] = "alive"

\* C8 amended: the move-assignment first empties the source and lets the
\* target take the source's Person while the previous Person is still alive,
\* then destroys the previous Person exactly once; the source's Person is not
\* destroyed, also not by the destruction of the emptied source.
C8_MoveAssign == [](C8_TakenThenDestroyed) /\ [][C8_TempDestroyStep]_vars

\* The move-assignment has run on a target that owned a Person.
C8_Witness ==
    /\ upc = "assigned"
    /\ uold # Null /\ ulife[uold] = "dead" /\ udtor[uold] = 1
    /\ uptr[udst] = unew

\* K is a strong-reference cycle: every Person of K is alive and is referred
\* to by the parent member of a Person of K.
SCycle(K) ==
    \A r \in K :
        /\ slife[r] = "alive" /\ cb[r] = "live" /\ strong[r] >= 1
        /\ \E q \in K : sptr[SField(q)] = r

\* No shared owner outside K refers to a Person of K.
SNoOutsideOwner(K) ==
    \A r \in K : SOwnersOf(r) \subseteq {SField(q) : q \in K}

\* A step other than a reset() inside cycle K keeps K a cycle of live Persons.
C9_CycleStep ==
    \A K \in SUBSET SRes :
        (K # {} /\ SCycle(K)) =>
            \/ /\ SCycle(K)'
               /\ \A r \in K : sdtor'[r] = 0 /\ strong'[r] >= 1
            \/ \E q \in K : SReset(SField(q))

\* C9: a strong-reference cycle is never broken automatically: a step that is
\* not a reset() of a parent member inside the cycle leaves every Person of the
\* cycle alive, with a strong count of at least 1 and with the cycle intact,
\* whether or not owners outside the cycle exist before or after the step.
C9_CycleNeverCollected == [][C9_CycleStep]_vars

\* Two Persons own each other, the only outside owner (fredzilla) has been
\* destroyed, and both are still alive.
C9_Witness ==
    /\ sscope[Fredzilla] = "gone"
    /\ SCycle({1, 2})
    /\ SNoOutsideOwner({1, 2})
    /\ sptr[SField(1)] = 2 /\ sptr[SField(2)] = 1

\* Counts, Person and control block in one state.
C10_BlockState ==
    \A c \in SRes :
        /\ strong[c] >= 0 /\ weak[c] >= 0
        /\ cb[c] # "none" => weak[c] = Cardinality(SWeaksOf(c))
        /\ (cb[c] # "none" /\ strong[c] = 0) => slife[c] = "dead" /\ sdtor[c] = 1
        /\ cb[c] = "live" => (strong[c] > 0 \/ weak[c] > 0)
        /\ cb[c] = "freed" =>
               /\ strong[c] = 0 /\ weak[c] = 0
               /\ SOwnersOf(c) = {} /\ SWeaksOf(c) = {}
        /\ cb[c] = "none" => SOwnersOf(c) = {} /\ SWeaksOf(c) = {}

\* Counts, Person and control block across one step.
C10_BlockStep ==
    \A c \in SRes :
        /\ (strong[c] > 0 /\ strong'[c] = 0) =>
               /\ slife[c] = "alive" /\ slife'[c] = "dead"
               /\ sdtor'[c] = sdtor[c] + 1
               /\ cb'[c] = IF weak'[c] > 0 THEN "live" ELSE "freed"
        /\ (cb[c] = "live" /\ cb'[c] = "freed") => (strong'[c] = 0 /\ weak'[c] = 0)
        /\ cb[c] = "freed" =>
               /\ cb'[c] = "freed"
               /\ strong'[c] = strong[c] /\ weak'[c] = weak[c]

\* C10: both counts are never negative and the weak count is the number of
\* live observers; a Person whose strong count is 0 is destroyed even while
\* observers are left; the control block exists exactly while one of the
\* counts is not 0; nothing that exists refers to a freed control block.  The
\* Person is destroyed in the step that brings the strong count to 0, the
\* control block in the step after which both counts are 0, and the counts of
\* a freed control block never change.
C10_ControlBlockLifetime == [](C10_BlockState) /\ [][C10_BlockStep]_vars

\* Person 1 was destroyed while two observers were left, its control block
\* outlived it, and one observer has gone since.
C10_Witness ==
    /\ slife[1] = "dead" /\ strong[1] = 0
    /\ cb[1] = "live" /\ weak[1] = 1
    /\ \E w \in SWeaks : wscope[w] = "gone"
    /\ \E w \in SWeaks : wscope[w] = "live" /\ wptr[w] = 1

\* The owner object still exists in heap h.
SOwnerLiveIn(h, o) ==
    IF o \in SFields THEN h.life[o[2]] = "alive" ELSE sscope[o] = "live"

\* C12: reset() on an empty shared owner changes nothing (no count, no
\* destruction, the owner stays empty); so a second reset() right after a first
\* one changes nothing more: the control block the owner referred to has lost
\* exactly one strong reference and no Person has been destroyed twice.
C12_ResetIdempotent ==
    \A o \in SOwners :
        SOwnerLive(o) =>
            LET c == sptr[o]
                h1 == SResetOp(SHeap, o)
                h2 == SResetOp(h1, o)
            IN /\ c = Null => h1 = SHeap
               /\ h1.ptr[o] = Null
               /\ SOwnerLiveIn(h1, o) =>
                      /\ h2 = h1
                      /\ c # Null => h2.strong[c] = strong[c] - 1
                      /\ \A r \in SRes : h2.dtor[r] <= sdtor[r] + 1 /\ h2.dtor[r] <= 1

\* fredzilla was constructed on Person 1, the only Person ever made, and has
\* been reset: it is in scope and empty, and Person 1 is destroyed.
C12_Witness ==
    /\ sscope[Fredzilla] = "live" /\ sptr[Fredzilla] = Null
    /\ slife[1] = "dead" /\ sdtor[1] = 1 /\ cb[1] = "freed"
    /\ \A r \in SRes \ {1} : slife[r] = "unborn"

\* A Person whose own parent member is the only shared owner of it.
SSelfOwned(r) ==
    /\ slife[r] = "alive"
    /\ sptr[SField(r)] = r
    /\ strong[r] = 1

\* C18: reset() on the parent member of a Person that this member alone owns
\* destroys the Person exactly once: the strong count goes from 1 to 0 and no
\* further (the destruction of the member inside ~Person() finds it empty), the
\* weak count is untouched, and no other Person, owner or count changes.  In
\* every state, no strong count is negative and no Person is destroyed twice.
C18_SelfResetOnce ==
    /\ \A r \in SRes : strong[r] >= 0 /\ sdtor[r] <= 1
    /\ \A r \in SRes :
          SSelfOwned(r) =>
              LET h1 == SResetOp(SHeap, SField(r))
              IN /\ h1.life[r] = "dead" /\ h1.dtor[r] = 1
                 /\ h1.strong[r] = 0 /\ h1.weak[r] = weak[r]
                 /\ h1.ptr[SField(r)] = Null
                 /\ h1.cb[r] = IF weak[r] = 0 THEN "freed" ELSE "live"
                 /\ \A q \in SRes \ {r} :
                        /\ h1.life[q] = slife[q] /\ h1.dtor[q] = sdtor[q]
                        /\ h1.strong[q] = strong[q] /\ h1.weak[q] = weak[q]
                        /\ h1.cb[q] = cb[q]
                 /\ \A o \in SOwners \ {SField(r)} : h1.ptr[o] = sptr[o]

\* Person 1, the only Person ever made and never owned from the stack, got a
\* control block from its own parent member and has been destroyed, once.
C18_Witness ==
    /\ slife[1] = "dead" /\ sdtor[1] = 1 /\ strong[1] = 0 /\ cb[1] = "freed"
    /\ \A r \in SRes \ {1} : slife[r] = "unborn"
    /\ \A o \in SStack : sscope[o] = "undeclared"
    /\ \A w \in SWeaks : wscope[w] = "live" /\ wptr[w] = Null

\* The results an operator-> call can leave in uop.
UDerefResults == {"value", "crash", "garbage", "error"}

C13_DerefState ==
    /\ uop # "error"
    /\ upc = "crashed" <=> uop = "crash"

C13_DerefStep ==
    (upc = "idle" /\ uop' \in UDerefResults) =>
        \A o \in UOwners :
            UDeref(o) =>
                /\ UNCHANGED <<ulife, udtor, uptr, uscope, up, udst, uold, unew>>
                /\ uptr[o] # Null => uop' = "value" /\ upc' = "idle"
                /\ uptr[o] = Null =>
                       \/ uop' = "crash" /\ upc' = "crashed"
                       \/ uop' = "garbage" /\ upc' = "idle"

C15_TargetOwnsNew(h, dst) ==
    LET r == UFreshIn(UHeap)
    IN h.ptr[dst] = r /\ h.life[r] = "alive" /\ h.dtor[r] = 0 /\ h.ptr[Tmp] = Null

\* The original reading: besides the target, the previously-owned Person and
\* the new Person, no owner and no Person is changed by either form.
C15_OthersUnchanged ==
    \A dst \in UOwners :
        (upc = "idle" /\ UAccessible(dst) /\ UCanNew) =>
            LET old == uptr[dst]
                a == UAssignNewOp(UHeap, dst)
                b == UReleaseDeleteAssignOp(UHeap, dst)
            IN /\ a = b
               /\ C15_TargetOwnsNew(a, dst)
               /\ old # Null => a.life[old] = "dead" /\ a.dtor[old] = udtor[old] + 1
               /\ \A q \in URes \ {old, UFreshIn(UHeap)} :
                      a.life[q] = ulife[q] /\ a.dtor[q] = udtor[q]
               /\ \A o \in UOwners \ {dst, Tmp} : a.ptr[o] = uptr[o]

\* C15: `dst = std::unique_ptr<Person>(new Person(..))` and
\* `delete dst.release(); dst = std::unique_ptr<Person>(new Person(..))` end in
\* the same state for every state of dst: dst owns the new Person, the Person
\* it owned before and the Persons that one owned through its parent members
\* are destructed exactly once, and every Person and owner outside that chain
\* is unchanged.
C15_AssignEquivalent ==
    \A dst \in UOwners :
        (upc = "idle" /\ UAccessible(dst) /\ UCanNew) =>
            LET chain == UChain(dst)
                a == UAssignNewOp(UHeap, dst)
                b == UReleaseDeleteAssignOp(UHeap, dst)
            IN /\ a = b
               /\ C15_TargetOwnsNew(a, dst)
               /\ \A q \in chain :
                      /\ a.life[q] = "dead" /\ a.dtor[q] = udtor[q] + 1 /\ a.dtor[q] = 1
                      /\ a.ptr[UField(q)] = Null
               /\ \A q \in URes \ (chain \cup {UFreshIn(UHeap)}) :
                      /\ a.life[q] = ulife[q] /\ a.dtor[q] = udtor[q]
                      /\ UField(q) # dst => a.ptr[UField(q)] = uptr[UField(q)]
               /\ \A o \in UStack \ {dst} : a.ptr[o] = uptr[o]

\* who owned Person 1, which owned Person 2 through its parent member; the
\* assignment has made who the owner of Person 3 and destroyed 1 and 2.
C15_Witness ==
    /\ upc = "idle" /\ uop = "tempgone"
    /\ uscope[Who] = "live" /\ uptr[Who] = 3
    /\ ulife[1] = "dead" /\ udtor[1] = 1
    /\ ulife[2] = "dead" /\ udtor[2] = 1
    /\ ulife[3] = "alive"

C16_ChainState ==
    /\ \A i \in 1 .. Len(rstack) - 1 :
          rstack[i + 1] = rparent[rstack[i]] /\ rlife[rstack[i]] = "unwinding"
    /\ \A r \in RRes : rlife[r] \in {"destructing", "unwinding"} =>
          \E i \in 1 .. Len(rstack) : rstack[i] = r
    /\ rerr = "none" => \A r \in RRes : rdel[r] = IF rlife[r] \in {"unborn", "alive"} THEN 0 ELSE 1
    /\ (rerr = "none" /\ rstack = <<>>) =>
          \A r \in RRes :
              (rlife[r] = "dead" /\ rparent[r] # Null) => rlife[rparent[r]] = "dead"

C16_ChainStep ==
    /\ \A q \in RRes :
          (rlife[q] = "alive" /\ rlife'[q] # "alive") =>
              /\ rlife'[q] = "destructing" /\ rdel'[q] = 1
              /\ \/ rstack = <<>>
                 \/ /\ rparent[RTop] = q
                    /\ rlife[RTop] = "destructing" /\ rdel[RTop] = 1
                    /\ rlife'[RTop] = "unwinding"
    /\ \A q \in RRes :
          (rlife[q] # "dead" /\ rlife'[q] = "dead") =>
              rparent[q] = Null \/ rlife[rparent[q]] = "dead"

\* C16: when the head of a parent chain is deleted, ~Person() runs on every
\* Person of the chain exactly once, from the head upwards: the destruction of a
\* parent begins only from inside its child's destructor, after the child's
\* body has run, and a Person is freed only after its parent has been.  This
\* holds for the raw-pointer Person and for the unique_ptr Person alike.
C16_ChildBeforeParent == [](C16_ChainState) /\ [][C16_ChainStep]_vars

\* A chain 1 -> 2 -> 3 of raw-pointer Persons was built and its head deleted:
\* all three are destroyed, once each.
C16_Witness ==
    /\ rkind = "raw" /\ rerr = "none" /\ rstack = <<>>
    /\ rparent[1] = 2 /\ rparent[2] = 3
    /\ \A r \in 1 .. 3 : rlife[r] = "dead" /\ rdel[r] = 1

C17_ErrorState ==
    /\ rerr # "none" <=> \E q \in RRes : rdel[q] = 2
    /\ rerr # "none" => rkind = "raw"

C17_DeleteStep ==
    (rerr = "none" /\ rstack # <<>> /\ rlife[RTop] = "destructing" /\ rvars' # rvars) =>
        LET p == rparent[RTop]
        IN IF p = Null
           THEN /\ rlife' = [rlife EXCEPT ![RTop] = "dead"]
                /\ rdel' = rdel /\ rerr' = "none"
           ELSE IF rlife[p] = "alive"
           THEN rerr' = "none" /\ rdel'[p] = 1
           ELSE rerr' # "none" /\ rdel'[p] = 2

\* C17: with raw pointers, `delete jim` while jim->parent still holds the
\* address of an already deleted Person deletes that Person a second time,
\* which is an error state; when jim->parent was set to nullptr first,
\* ~Person() on jim deletes nothing else, and jim and the former parent are
\* each destroyed exactly once.
C17_DanglingParentDoubleDelete == [](C17_ErrorState) /\ [][C17_DeleteStep]_vars

\* jim's destructor has deleted jim->parent, which had been deleted before.
C17_Witness ==
    /\ rkind = "raw" /\ rerr # "none"
    /\ \E r \in RRes :
          /\ rlife[r] = "unwinding" /\ rdel[r] = 1
          /\ rparent[r] # Null
          /\ rlife[rparent[r]] = "dead" /\ rdel[rparent[r]] = 2

\* jim->parent was deleted and then set to nullptr, and jim deleted.
C17_FixedWitness ==
    /\ rkind = "raw" /\ rerr = "none" /\ rstack = <<>>
    /\ rlife[1] = "dead" /\ rdel[1] = 1 /\ rparent[1] = Null
    /\ rlife[2] = "dead" /\ rdel[2] = 1
    /\ rlife[3] = "unborn"

\* A chain 1 -> 2 -> 3 of unique_ptr Persons was built and its head deleted.
C16_UniqueWitness ==
    /\ rkind = "unique" /\ rerr = "none" /\ rstack = <<>>
    /\ rparent[1] = 2 /\ rparent[2] = 3
    /\ \A r \in 1 .. 3 : rlife[r] = "dead" /\ rdel[r] = 1

C14_OnceState ==
    /\ mr.err = "none"
    /\ \A r \in MRawRes : mr.dtor[r] = IF mr.life[r] = "dead" THEN 1 ELSE 0
    /\ \A r \in MUniqRes : mu.dtor[r] = IF mu.life[r] = "dead" THEN 1 ELSE 0
    /\ \A r \in MSharedRes : ms.dtor[r] = IF ms.life[r] = "dead" THEN 1 ELSE 0

\* C14: when main() has returned, each of the Person objects constructed in
\* the raw-pointer, unique_ptr and shared_ptr blocks has been destructed, and at
\* no point of the run has ~Person() run twice on one of them.
C14_AllDestructedOnce ==
    /\ C14_OnceState
    /\ MDone =>
          /\ \A r \in MRawRes : mr.life[r] = "dead"
          /\ \A r \in MUniqRes : mu.life[r] = "dead"
          /\ \A r \in MSharedRes : ms.life[r] = "dead"
          /\ \A r \in MSharedRes : ms.strong[r] = 0 /\ ms.weak[r] = 0

\* main() has returned after constructing all its Persons.
C14_Witness ==
    /\ MDone
    /\ mr.dtor[Jimothy] = 1
    /\ mu.dtor[WhatSecond] = 1
    /\ ms.dtor[FredzillaPerson] = 1

C11_LockState ==
    /\ cstrong = Cardinality({o \in COwners : cowner[o] = "live"})
                 + Cardinality({l \in CLockers : clock[l] = "owner"})
    /\ \A l \in CLockers : clock[l] = "owner" => clife = "alive"
    /\ \A l \in CLockers : clock[l] = "empty" => cstrong = 0 /\ cseen[l] = 0
    /\ clife = "dead" => cstrong = 0
    /\ cdtor = IF clife = "dead" THEN 1 ELSE 0

C11_LockStep ==
    /\ cstrong = 0 => cstrong' = 0
    /\ clife = "dead" => clife' = "dead"
    /\ \A l \in CLockers :
          (clock[l] # "owner" /\ clock'[l] = "owner") =>
              cstrong > 0 /\ cstrong' = cstrong + 1 /\ clife = "alive"

\* C11: with lock() running concurrently with the destruction of the last
\* shared owner, lock() returns an owner only by raising a strong count that is
\* above 0 at that very step, so the Person it returns is alive and stays alive
\* while the returned owner lives; otherwise lock() returns empty.  The strong
\* count never leaves 0 and the Person is destroyed once.
C11_LockAtomic == [](C11_LockState) /\ [][C11_LockStep]_vars

\* A lock() read a count above 0, the last owner was then destroyed and the
\* Person deleted, the compare-exchange failed and lock() returned empty.
C11_Witness ==
    \E l \in CLockers :
        /\ clock[l] = "empty" /\ cretry[l]
        /\ clife = "dead" /\ cdtor = 1
        /\ \A o \in COwners : cowner[o] = "gone"
====
